---- MODULE Spec2Model ----
(***************************************************************************)
(* Model of the Wikipedia first-link crawler: the link extractor           *)
(* (WikiCrawler.extract_first_link, is_valid_wiki_link), the three path    *)
(* walkers (WikiCrawler.follow_path, GeneralWikiCrawler.follow_general_path,*)
(* DeepWikiCrawler.crawl_deeply), the two crawl controllers                *)
(* (LargeWikiGraphController, ParallelWikiController) and their size       *)
(* monitors.                                                               *)
(***************************************************************************)
EXTENDS Integers, Sequences, FiniteSets, TLC

(***************************************************************************)
(* Bounds of the model.                                                    *)
(***************************************************************************)
MaxSteps == 5          \* largest step budget (max_steps) a walk is given
MaxDepth == 3          \* largest target_depth given to follow_general_path
MaxJobs == 2           \* crawl_article calls one controller run may make
MaxWorkers == 2        \* largest num_workers a controller is given
MaxSizeGb == 3         \* largest storage size (in GB) a size query reports
MaxPolls == 3          \* size polls followed when the monitor is examined on its own
MaxNodes == 4          \* inline nodes of the lead paragraph of a page
MaxHrefLen == 3        \* tokens of an href given to is_valid_wiki_link
MaxLead == 3           \* inline nodes of the lead paragraph in the stage cascade runs

(***************************************************************************)
(* Article locators.  A locator is the path of the URL, a sequence of      *)
(* segments; a segment is a sequence of characters, where a %-escape is    *)
(* kept as one character.                                                  *)
(***************************************************************************)
NoUrl == <<>>                                        \* None / falsy locator
philosophy_url == << <<"wiki">>, <<"Philosophy">> >>
UrlB_C == << <<"wiki">>, <<"B", "_", "C">> >>
UrlBpC == << <<"wiki">>, <<"B", "%20", "C">> >>
UrlA_D == << <<"wiki">>, <<"A">>, <<"D">> >>
Locators == {philosophy_url, UrlB_C, UrlBpC, UrlA_D}

Philosophy == <<"Philosophy">>                       \* the literal title

\* str.replace("_", " ") on one character
ReplaceUnderscore(c) == IF c = "_" THEN " " ELSE c
\* urllib.parse.unquote on one character
unquote(c) == IF c = "%20" THEN " " ELSE IF c = "%5F" THEN "_" ELSE c

\* WikiCrawler.get_title_from_url: last path segment, "_" -> " ", unquote
get_title_from_url(url) ==
    LET seg == url[Len(url)]
    IN  [i \in 1..Len(seg) |-> unquote(ReplaceUnderscore(seg[i]))]

UrlTitles == {get_title_from_url(u) : u \in Locators}

\* Articles get_random_article (Special:Random) serves to the controllers' jobs
RandomArticles == {UrlB_C}

(***************************************************************************)
(* What extract_first_link can return for a locator: (next_url, title).   *)
(* The title is the page heading, which is "Philosophy" or agrees with     *)
(* the locator-derived title (also the fallback when the heading is        *)
(* missing or every retry failed, and then next_url is None).              *)
(***************************************************************************)
Contents(u) ==
    [next_url : Locators \cup {NoUrl},
     title    : {Philosophy, get_title_from_url(u)}]

Unfetched == [next_url |-> NoUrl, title |-> <<>>]

VARIABLES
    mode,             \* which entry point runs: a walker or a controller
    ext,              \* the extract_first_link / is_valid_wiki_link call under test
    web,              \* locator -> content served for it (Unfetched until fetched)
    walk,             \* the local state of the walker under test
    num_workers,      \* controller.num_workers
    stop_flag,        \* controller.stop_flag (threading.Event)
    visited_articles, \* LargeWikiGraphController.visited_articles
    mapped_articles,  \* ParallelWikiController.mapped_articles
    results,          \* controller.results
    jobs,             \* job id -> state of that crawl_article call
    sched,            \* the thread running run_large_graph_crawl / run_parallel_crawls
    monitor,          \* the size monitor thread
    db                \* the storage: titles it holds and the store_path calls made

NoExt == [pc |-> "none"]

walkerVars == <<web, walk>>
ctlVars == <<num_workers, stop_flag, visited_articles, mapped_articles,
             results, jobs, sched, monitor, db>>
vars == <<mode, ext, web, walk, num_workers, stop_flag, visited_articles,
          mapped_articles, results, jobs, sched, monitor, db>>

(***************************************************************************)
(* Helpers on Python lists, sets and dicts.                                *)
(***************************************************************************)
InList(x, s) == \E i \in 1..Len(s) : s[i] = x
AllButLast(s) == SubSeq(s, 1, Len(s) - 1)            \* path[:-1]
Last(s) == s[Len(s)]                                 \* path[-1]
DictPut(d, k, v) == [x \in (DOMAIN d) \cup {k} |-> IF x = k THEN v ELSE d[x]]
EmptyDict == [x \in {} |-> <<>>]
Range(s) == {s[i] : i \in 1..Len(s)}

(***************************************************************************)
(* Local state of a walk at entry of the walker function.                  *)
(***************************************************************************)
NewWalk(kind, start_url, max_steps, target_depth, vg_given, visited_global) ==
    [kind |-> kind, start_url |-> start_url, current_url |-> start_url,
     path |-> <<>>, titles |-> EmptyDict, steps |-> 0,
     max_steps |-> max_steps, target_depth |-> target_depth,
     visited_in_path |-> {}, visited_articles |-> {},
     vg_given |-> vg_given, visited_global |-> visited_global,
     supplied |-> visited_global,      \* history: the set as the caller passed it
     pc |-> "begin", reason |-> "none", reached |-> FALSE,
     calls |-> 0,                      \* history: calls of extract_first_link
     extracted |-> {}]                 \* history: locators passed to it

\* First lines of each walker: choose the start, initialise the locals.
\* r is the article get_random_article returns when no start was given.
WalkBegin(w, r) ==
    LET s == IF w.start_url = NoUrl THEN r ELSE w.start_url
        w1 == [w EXCEPT !.start_url = s, !.current_url = s, !.path = <<s>>,
                        !.visited_in_path = {s}, !.pc = "loop"]
        start_title == get_title_from_url(s)
    IN  IF w.kind # "deep" THEN w1
        ELSE IF w.vg_given /\ start_title \in w.visited_global
             THEN [w1 EXCEPT !.pc = "done", !.reason = "start_known"]
             ELSE [w1 EXCEPT !.visited_articles = {start_title},
                             !.visited_global =
                                 IF w.vg_given THEN @ \cup {start_title} ELSE @]

\* The call of extract_first_link(current_url) and titles[current_url] = title
Extracted(w, c) ==
    [w EXCEPT !.titles = DictPut(@, w.current_url, c.title),
              !.calls = @ + 1,
              !.extracted = @ \cup {w.current_url}]

Stop(w, reason) == [w EXCEPT !.pc = "done", !.reason = reason]

AdvanceAppendBeforeMove(w, next_url) ==
    [w EXCEPT !.current_url = next_url, !.path = Append(@, w.current_url),
              !.visited_in_path = @ \cup {next_url}, !.steps = @ + 1]

\* current_url = next_url; path.append(current_url); steps += 1
Advance(w, next_url) ==
    [w EXCEPT !.current_url = next_url, !.path = Append(@, next_url),
              !.visited_in_path = @ \cup {next_url}, !.steps = @ + 1]

WithinBudgetInclusive(w) == w.steps <= w.max_steps

\* while steps < max_steps
WithinBudget(w) == w.steps < w.max_steps

LoopDetectedSkipStart(w, next_url) == next_url \in (w.visited_in_path \ {w.start_url})

\* Loop detection of crawl_deeply and follow_general_path:
\* if next_url in visited_in_path
LoopDetected(w, next_url) == next_url \in w.visited_in_path

FollowPathIterDeadEndFirst(w, c) ==
    LET w1 == Extracted(w, c)
    IN  IF c.next_url = NoUrl THEN Stop(w1, "dead_end")
        ELSE IF c.title = Philosophy THEN Stop(w1, "target")
        ELSE IF InList(w.current_url, AllButLast(w.path)) THEN Stop(w1, "loop")
        ELSE Advance(w1, c.next_url)

(***************************************************************************)
(* WikiCrawler.follow_path: one iteration of the while loop, given the     *)
(* content c the extractor returns for the current tail.                   *)
(***************************************************************************)
FollowPathIter(w, c) ==
    LET w1 == Extracted(w, c)
    IN  IF c.title = Philosophy THEN Stop(w1, "target")
        ELSE IF InList(w.current_url, AllButLast(w.path)) THEN Stop(w1, "loop")
        ELSE IF c.next_url = NoUrl THEN Stop(w1, "dead_end")
        ELSE Advance(w1, c.next_url)

(***************************************************************************)
(* GeneralWikiCrawler.follow_general_path: one iteration.                  *)
(***************************************************************************)
GeneralIter(w, c) ==
    LET w1 == Extracted(w, c)
    IN  IF w.steps >= w.target_depth - 1
        THEN [Stop(w1, "depth") EXCEPT !.reached = TRUE]
        ELSE IF c.next_url = NoUrl
        THEN [Stop(w1, "dead_end") EXCEPT !.reached = (w.steps >= w.target_depth - 1)]
        ELSE IF LoopDetected(w, c.next_url)
        THEN [Stop(w1, "loop") EXCEPT !.reached = (w.steps >= w.target_depth - 1)]
        ELSE Advance(w1, c.next_url)

(***************************************************************************)
(* DeepWikiCrawler.crawl_deeply: one iteration.                            *)
(***************************************************************************)
AlreadyKnownStopSilent(w1, next_url, next_title) == Stop(w1, "already_known")

\* path.append(next_url); titles[next_url] = next_title; break
AlreadyKnownStop(w1, next_url, next_title) ==
    [Stop(w1, "already_known") EXCEPT
        !.path = Append(@, next_url),
        !.titles = DictPut(@, next_url, next_title)]

DeepIter(w, c) ==
    LET w1 == Extracted(w, c)
        next_title == get_title_from_url(c.next_url)
    IN  IF c.next_url = NoUrl THEN Stop(w1, "dead_end")
        ELSE IF LoopDetected(w, c.next_url) THEN Stop(w1, "loop")
        ELSE IF w.vg_given /\ next_title \in w.visited_global
        THEN AlreadyKnownStop(w1, c.next_url, next_title)
        ELSE [Advance(w1, c.next_url) EXCEPT
                 !.visited_articles = @ \cup {next_title},
                 !.visited_global = IF w.vg_given THEN @ \cup {next_title} ELSE @]

\* Leaving the while loop because steps < max_steps is false.
LimitExit(w) ==
    [Stop(w, "step_limit") EXCEPT
        !.reached = (w.kind = "general" /\ w.steps >= w.target_depth - 1)]

Iter(w, c) ==
    CASE w.kind = "follow"  -> FollowPathIter(w, c)
      [] w.kind = "general" -> GeneralIter(w, c)
      [] w.kind = "deep"    -> DeepIter(w, c)

(***************************************************************************)
(* The walker entry points, one loop iteration per step.                   *)
(***************************************************************************)
WalkerModes == {"follow", "general", "deep"}

\* Content served for u: what was served before, else any content.
Serve(u) == IF web[u] = Unfetched THEN Contents(u) ELSE {web[u]}

Begin ==
    /\ mode \in WalkerModes
    /\ walk.pc = "begin"
    /\ \E r \in Locators : walk' = WalkBegin(walk, r)
    /\ UNCHANGED <<mode, ext, web>>
    /\ UNCHANGED ctlVars

LoopStep(kind) ==
    /\ mode = kind
    /\ walk.pc = "loop"
    /\ IF WithinBudget(walk)
       THEN \E c \in Serve(walk.current_url) :
               /\ walk' = Iter(walk, c)
               /\ web' = [web EXCEPT ![walk.current_url] = c]
       ELSE /\ walk' = LimitExit(walk)
            /\ UNCHANGED web
    /\ UNCHANGED <<mode, ext>>
    /\ UNCHANGED ctlVars

follow_path == LoopStep("follow")
follow_general_path == LoopStep("general")
crawl_deeply == LoopStep("deep")

(***************************************************************************)
(* The walk run to completion on a fully known web, as a controller job    *)
(* runs it between its two accesses to the shared state.                   *)
(***************************************************************************)
RECURSIVE RunWalk(_)
RunWalk(w) ==
    IF w.pc = "done" THEN w
    ELSE IF WithinBudget(w)
    THEN CHOOSE r \in {RunWalk(n) : n \in {Iter(w, web[w.current_url])}} : TRUE
    ELSE LimitExit(w)

(***************************************************************************)
(* Controllers: shared data.                                               *)
(***************************************************************************)
JobIds == 1..MaxJobs
ControllerModes == {"large", "parallel"}

TitlesGet(titles, url, default) ==                   \* titles.get(url, default)
    IF url \in DOMAIN titles THEN titles[url] ELSE default

NoneResult ==                                        \* crawl_article returned None
    [none |-> TRUE, start_url |-> NoUrl, start_title |-> <<>>, steps |-> 0,
     path |-> <<>>, path_titles |-> <<>>, path_id |-> 0, reached_target |-> FALSE]

ResultStepsCounter(w) == w.steps

\* "steps": len(path) - 1 of the result record
ResultSteps(w) == Len(w.path) - 1

\* The result dictionary crawl_article builds; path_id 0 stands for None.
ResultRecord(start_url, start_title, w, path_id) ==
    [none |-> FALSE, start_url |-> start_url, start_title |-> start_title,
     steps |-> ResultSteps(w), path |-> w.path,
     path_titles |-> [i \in 1..Len(w.path) |->
                         TitlesGet(w.titles, w.path[i], get_title_from_url(w.path[i]))],
     path_id |-> path_id, reached_target |-> w.reached]

IdleJob ==
    [pc |-> "idle", thread |-> "pool", arg |-> NoUrl, start_url |-> NoUrl,
     start_title |-> <<>>, w |-> NewWalk("deep", NoUrl, 0, 0, FALSE, {}),
     result |-> NoneResult, path_id |-> 0,
     raised |-> FALSE,      \* the call ended by raising an exception
     late |-> FALSE]        \* history: the stop flag was set when the job was accepted

Finished(j) == jobs[j].pc \in {"finished", "cancelled"}
\* future.result() raises the exception the call ended with
Raised(j) == jobs[j].pc = "finished" /\ jobs[j].raised
Running(j) == jobs[j].thread = "pool" /\ jobs[j].pc \notin {"idle", "queued", "finished", "cancelled"}

ThreadAvailableAlways == TRUE

\* ThreadPoolExecutor(max_workers=self.num_workers): a queued call starts only
\* on one of the num_workers threads of the pool
ThreadAvailable == Cardinality({k \in JobIds : Running(k)}) < num_workers

\* A pool thread is free for the oldest queued job; the main thread runs its own call.
CanStart(j) ==
    /\ jobs[j].pc = "queued"
    /\ \/ jobs[j].thread = "main"
       \/ /\ ThreadAvailable
          /\ \A k \in JobIds : (k < j /\ jobs[k].thread = "pool") => jobs[k].pc # "queued"

HasIdle == \E j \in JobIds : jobs[j].pc = "idle"
FreeId == CHOOSE j \in JobIds : jobs[j].pc = "idle" /\ \A k \in JobIds : jobs[k].pc = "idle" => j <= k

\* executor.submit(self.crawl_article, arg) / a direct call in the main thread
Submitted(thread, arg) ==
    [jobs EXCEPT ![FreeId] = [IdleJob EXCEPT !.pc = "queued", !.thread = thread,
                                             !.arg = arg, !.late = stop_flag]]

\* WikiDatabaseStorage.store_path: the ids of the rows committed so far
NextPathId == Cardinality({c \in db.calls : c.ok}) + 1
StorePath(j, w, ok) ==
    [db EXCEPT !.calls = @ \cup {[job |-> j, path |-> w.path, ok |-> ok,
                                  flag |-> stop_flag]}]   \* flag: history, stop flag when the call began

(***************************************************************************)
(* LargeWikiGraphController.crawl_article, split at its accesses to the    *)
(* stop flag, the shared visited set and the storage.                      *)
(***************************************************************************)
\* with self.visited_articles_lock: visited_global = self.visited_articles.copy()
SnapshotCopy(shared) == shared
MergeVisitedOverwrite(shared, visited_in_crawl) == visited_in_crawl

\* with self.visited_articles_lock: self.visited_articles.update(visited_in_crawl)
MergeVisited(shared, visited_in_crawl) == shared \cup visited_in_crawl

StopRequestedIgnored(flag) == FALSE

\* "Check if we should stop": if self.stop_flag.is_set(): return None
StopRequested(flag) == flag

\* start_url = crawler.get_random_article(): session.get raises (no handler)
GetRandomArticleRaises(j) == [jobs EXCEPT ![j].pc = "finished", ![j].raised = TRUE]

LargeStart(j) ==
    /\ mode = "large"
    /\ CanStart(j)
    /\ IF StopRequested(stop_flag)
       THEN jobs' = [jobs EXCEPT ![j].pc = "finished", ![j].result = NoneResult]
       ELSE \/ \E r \in RandomArticles :
                  jobs' = [jobs EXCEPT ![j].pc = "snapshot", ![j].start_url = r]
            \/ jobs' = GetRandomArticleRaises(j)
    /\ UNCHANGED <<mode, ext, web, walk, num_workers, stop_flag, visited_articles,
                   mapped_articles, results, sched, monitor, db>>

LargeSnapshotAndWalk(j) ==
    /\ mode = "large"
    /\ jobs[j].pc = "snapshot"
    /\ LET w0 == NewWalk("deep", jobs[j].start_url, MaxSteps, 0, TRUE,
                         SnapshotCopy(visited_articles))
       IN  jobs' = [jobs EXCEPT ![j].pc = "merge",
                                ![j].w = RunWalk(WalkBegin(w0, jobs[j].start_url))]
    /\ UNCHANGED <<mode, ext, web, walk, num_workers, stop_flag, visited_articles,
                   mapped_articles, results, sched, monitor, db>>

LargeMerge(j) ==
    /\ mode = "large"
    /\ jobs[j].pc = "merge"
    /\ visited_articles' = MergeVisited(visited_articles, jobs[j].w.visited_articles)
    /\ jobs' = [jobs EXCEPT ![j].pc = "check2",
                  ![j].start_title = TitlesGet(jobs[j].w.titles, jobs[j].w.path[1],
                                               get_title_from_url(jobs[j].w.path[1]))]
    /\ UNCHANGED <<mode, ext, web, walk, num_workers, stop_flag,
                   mapped_articles, results, sched, monitor, db>>

CheckBeforeStoreMergeUnstored(j, flag, db_ok) ==
    IF flag
    THEN [jobs EXCEPT ![j].pc = "finished", ![j].result = NoneResult]
    ELSE IF db_ok
    THEN [jobs EXCEPT ![j].pc = "store"]
    ELSE [jobs EXCEPT ![j].pc = "mapmerge", ![j].path_id = 0]

\* "Check stop flag again before database operations", then connect_to_database
CheckBeforeStore(j, flag, db_ok) ==
    IF flag
    THEN [jobs EXCEPT ![j].pc = "finished", ![j].result = NoneResult]
    ELSE IF db_ok
    THEN [jobs EXCEPT ![j].pc = "store"]
    ELSE [jobs EXCEPT ![j].pc = "finished", ![j].path_id = 0,
                      ![j].result = ResultRecord(jobs[j].start_url, jobs[j].start_title,
                                                 jobs[j].w, 0)]

LargeCheck2(j) ==
    /\ mode = "large"
    /\ jobs[j].pc = "check2"
    /\ \E db_ok \in BOOLEAN : jobs' = CheckBeforeStore(j, stop_flag, db_ok)
    /\ UNCHANGED <<mode, ext, web, walk, num_workers, stop_flag, visited_articles,
                   mapped_articles, results, sched, monitor, db>>

LargeStore(j) ==
    /\ mode = "large"
    /\ jobs[j].pc = "store"
    /\ \E ok \in BOOLEAN :
         LET id == IF ok THEN NextPathId ELSE 0
         IN  /\ db' = StorePath(j, jobs[j].w, ok)
             /\ jobs' = [jobs EXCEPT ![j].pc = "finished", ![j].path_id = id,
                           ![j].result = ResultRecord(jobs[j].start_url,
                                                      jobs[j].start_title, jobs[j].w, id)]
    /\ UNCHANGED <<mode, ext, web, walk, num_workers, stop_flag, visited_articles,
                   mapped_articles, results, sched, monitor>>

crawl_article_large(j) ==
    \/ LargeStart(j)
    \/ LargeSnapshotAndWalk(j)
    \/ LargeMerge(j)
    \/ LargeCheck2(j)
    \/ LargeStore(j)

(***************************************************************************)
(* ParallelWikiController.crawl_article.                                   *)
(***************************************************************************)
MergeMappedReplace(shared, w) ==
    {TitlesGet(w.titles, w.path[i], get_title_from_url(w.path[i])) : i \in 1..Len(w.path)}

\* with self.mapped_articles_lock: add the title of every article of the path
MergeMapped(shared, w) ==
    shared \cup {TitlesGet(w.titles, w.path[i], get_title_from_url(w.path[i])) :
                    i \in 1..Len(w.path)}

ParallelStart(j) ==
    /\ mode = "parallel"
    /\ CanStart(j)
    /\ IF StopRequested(stop_flag)
       THEN jobs' = [jobs EXCEPT ![j].pc = "finished", ![j].result = NoneResult]
       ELSE jobs' = [jobs EXCEPT ![j].pc = "mapcheck", ![j].start_url = jobs[j].arg,
                                 ![j].start_title = get_title_from_url(jobs[j].arg)]
    /\ UNCHANGED <<mode, ext, web, walk, num_workers, stop_flag, visited_articles,
                   mapped_articles, results, sched, monitor, db>>

\* with self.mapped_articles_lock: the job that found its start article mapped
\* holds the lock while it calls get_random_article
HoldsMappedLock(j) == jobs[j].pc = "random_locked"
MappedLockFree == \A k \in JobIds : ~HoldsMappedLock(k)

\* The walk from s, run after the with block has released the lock
ParallelWalkFrom(j, s) ==
    LET w0 == NewWalk("general", s, MaxSteps, sched.target_depth, FALSE, {})
    IN  [jobs EXCEPT ![j].pc = "check2", ![j].start_url = s,
                     ![j].start_title = get_title_from_url(s),
                     ![j].w = RunWalk(WalkBegin(w0, s))]

\* The check of mapped_articles under the lock; an unmapped start is walked.
ParallelMapCheckAndWalk(j) ==
    /\ mode = "parallel"
    /\ jobs[j].pc = "mapcheck"
    /\ MappedLockFree
    /\ IF jobs[j].start_title \in mapped_articles
       THEN jobs' = [jobs EXCEPT ![j].pc = "random_locked"]
       ELSE jobs' = ParallelWalkFrom(j, jobs[j].start_url)
    /\ UNCHANGED <<mode, ext, web, walk, num_workers, stop_flag, visited_articles,
                   mapped_articles, results, sched, monitor, db>>

RandomAcceptedAlways(r) == TRUE

\* if new_title not in self.mapped_articles: start_url = new_url ... break
RandomAccepted(r) == get_title_from_url(r) \notin mapped_articles

\* Up to 5 calls of get_random_article with the lock held, then the walk:
\* from the first random article whose title is not mapped, or from the
\* requested start when all five calls returned mapped articles; a call may raise.
ParallelRandomLocked(j) ==
    /\ mode = "parallel"
    /\ jobs[j].pc = "random_locked"
    /\ \/ \E r \in RandomArticles :
             IF RandomAccepted(r)
             THEN jobs' = ParallelWalkFrom(j, r)
             ELSE jobs' = ParallelWalkFrom(j, jobs[j].start_url)
       \/ jobs' = GetRandomArticleRaises(j)
    /\ UNCHANGED <<mode, ext, web, walk, num_workers, stop_flag, visited_articles,
                   mapped_articles, results, sched, monitor, db>>

ParallelCheck2(j) ==
    /\ mode = "parallel"
    /\ jobs[j].pc = "check2"
    /\ \E db_ok \in BOOLEAN : jobs' = CheckBeforeStore(j, stop_flag, db_ok)
    /\ UNCHANGED <<mode, ext, web, walk, num_workers, stop_flag, visited_articles,
                   mapped_articles, results, sched, monitor, db>>

ParallelStore(j) ==
    /\ mode = "parallel"
    /\ jobs[j].pc = "store"
    /\ \E ok \in BOOLEAN :
         /\ db' = StorePath(j, jobs[j].w, ok)
         /\ jobs' = [jobs EXCEPT ![j].pc = "mapmerge",
                                 ![j].path_id = IF ok THEN NextPathId ELSE 0]
    /\ UNCHANGED <<mode, ext, web, walk, num_workers, stop_flag, visited_articles,
                   mapped_articles, results, sched, monitor>>

ParallelMapMerge(j) ==
    /\ mode = "parallel"
    /\ jobs[j].pc = "mapmerge"
    /\ MappedLockFree
    /\ mapped_articles' = MergeMapped(mapped_articles, jobs[j].w)
    /\ jobs' = [jobs EXCEPT ![j].pc = "finished",
                  ![j].result = ResultRecord(jobs[j].start_url, jobs[j].start_title,
                                             jobs[j].w, jobs[j].path_id)]
    /\ UNCHANGED <<mode, ext, web, walk, num_workers, stop_flag, visited_articles,
                   results, sched, monitor, db>>

crawl_article_parallel(j) ==
    \/ ParallelStart(j)
    \/ ParallelMapCheckAndWalk(j)
    \/ ParallelRandomLocked(j)
    \/ ParallelCheck2(j)
    \/ ParallelStore(j)
    \/ ParallelMapMerge(j)

(***************************************************************************)
(* The size monitor threads.                                               *)
(***************************************************************************)
PollOutcomes == {"error", "below", "reached"}

\* What the size query of one poll yields: the connection or the query
\* raises, the sum is NULL, or a size in GB (the data files are never empty)
QueryResults ==
    {[kind |-> "error", size_gb |-> 0], [kind |-> "null", size_gb |-> 0]}
    \cup {[kind |-> "size", size_gb |-> n] : n \in 1..MaxSizeGb}

\* --max-size of a controller run of the model (the Parallel default)
DefaultMaxSizeGb == 2

\* The monitor threads examined on their own
MonitorModes == {"monitor_large", "monitor_parallel"}

NewMonitor(max_size_gb) ==
    [pc |-> "not_started", max_size_gb |-> max_size_gb,
     seen |-> <<>>]        \* history: the query results of the polls, kept in MonitorModes

Recorded(m, q) == IF mode \in MonitorModes THEN [m EXCEPT !.seen = Append(@, q)] ELSE m
CanPoll == mode \in MonitorModes => Len(monitor.seen) < MaxPolls

SizeReachedStrict(size_gb, max_size_gb) == size_gb > max_size_gb

\* if current_size_gb >= self.max_size_gb
SizeReached(size_gb, max_size_gb) == size_gb >= max_size_gb

\* LargeWikiGraphController.check_database_size, up to the flag:
\* "if result and result[0]:" guards the comparison; an exception is logged
LargeSizeCheck(q, max_size_gb) ==
    IF q.kind = "error" THEN "error"
    ELSE IF q.kind = "size" /\ q.size_gb # 0 /\ SizeReached(q.size_gb, max_size_gb)
    THEN "reached"
    ELSE "below"

\* ParallelWikiController.check_database_size, one round of its loop:
\* size_gb = cursor.fetchone()[0] or 0
ParallelSizeCheck(q, max_size_gb) ==
    IF q.kind = "error" THEN "error"
    ELSE LET size_gb == IF q.kind = "null" THEN 0 ELSE q.size_gb
         IN  IF SizeReached(size_gb, max_size_gb) THEN "reached" ELSE "below"

FlagAssignedByPoll(flag, obs) == obs = "reached"

\* check_database_size: if current_size_gb >= self.max_size_gb: self.stop_flag.set()
FlagAfterPoll(flag, obs) == flag \/ obs = "reached"

\* LargeWikiGraphController.size_monitor_thread with check_database_size
size_monitor_thread ==
    /\ mode \in {"large", "monitor_large"}
    /\ monitor.pc = "running"
    /\ IF stop_flag
       THEN /\ monitor' = [monitor EXCEPT !.pc = "ended"]
            /\ UNCHANGED stop_flag
       ELSE /\ CanPoll
            /\ \E q \in QueryResults :
                 LET obs == LargeSizeCheck(q, monitor.max_size_gb)
                 IN  /\ stop_flag' = FlagAfterPoll(stop_flag, obs)
                     /\ monitor' = [Recorded(monitor, q) EXCEPT
                                       !.pc = IF obs = "reached" THEN "ended" ELSE @]
    /\ UNCHANGED <<mode, ext, web, walk, num_workers, visited_articles,
                   mapped_articles, results, jobs, sched, db>>

\* ParallelWikiController.check_database_size
check_database_size_parallel ==
    /\ mode \in {"parallel", "monitor_parallel"}
    /\ monitor.pc = "running"
    /\ IF stop_flag
       THEN /\ monitor' = [monitor EXCEPT !.pc = "ended"]
            /\ UNCHANGED stop_flag
       ELSE /\ CanPoll
            /\ \E q \in QueryResults :
                 LET obs == ParallelSizeCheck(q, monitor.max_size_gb)
                 IN  /\ stop_flag' = FlagAfterPoll(stop_flag, obs)
                     /\ monitor' = [Recorded(monitor, q) EXCEPT
                                       !.pc = IF obs = "error" THEN "ended" ELSE @]
    /\ UNCHANGED <<mode, ext, web, walk, num_workers, visited_articles,
                   mapped_articles, results, jobs, sched, db>>

(***************************************************************************)
(* LargeWikiGraphController.run_large_graph_crawl (the main thread).       *)
(***************************************************************************)
load_existingDiscarded(shared, ok) == shared

\* load_existing_articles / load_mapped_articles: the titles the storage holds
\* are merged into the shared set, unless the connection or a query failed
load_existing(shared, ok) == IF ok THEN shared \cup db.titles ELSE shared

AppendResult(rs, r) == IF r.none THEN rs ELSE Append(rs, r)

LargeSeed ==
    /\ mode = "large"
    /\ sched.pc = "seed"
    /\ \E ok \in BOOLEAN :
          /\ visited_articles' = load_existing(visited_articles, ok)
          /\ sched' = [sched EXCEPT !.pc = "initial", !.i = 0,
                                    !.seeded = IF ok THEN db.titles ELSE {}]
    /\ monitor' = [monitor EXCEPT !.pc = "running"]
    /\ UNCHANGED <<mode, ext, web, walk, num_workers, stop_flag, mapped_articles,
                   results, jobs, db>>

\* for _ in range(num_initial_articles): initial_crawl = self.crawl_article()
LargeInitialCall ==
    /\ mode = "large"
    /\ sched.pc = "initial"
    /\ IF sched.i < sched.num_initial
       THEN /\ HasIdle
            /\ jobs' = Submitted("main", NoUrl)
            /\ sched' = [sched EXCEPT !.pc = "initial_wait", !.cur = FreeId]
       ELSE /\ sched' = [sched EXCEPT !.pc = "batch", !.i = 0]
            /\ UNCHANGED jobs
    /\ UNCHANGED <<mode, ext, web, walk, num_workers, stop_flag, visited_articles,
                   mapped_articles, results, monitor, db>>

LargeInitialReturn ==
    /\ mode = "large"
    /\ sched.pc = "initial_wait"
    /\ jobs[sched.cur].pc = "finished"
    /\ IF Raised(sched.cur)
       THEN sched' = [sched EXCEPT !.pc = "raised"]    \* no handler: propagates to the caller
       ELSE sched' = [sched EXCEPT
                        !.initial_articles = AppendResult(@, jobs[sched.cur].result),
                        !.pc = IF stop_flag THEN "batch" ELSE "initial",
                        !.i = IF stop_flag THEN 0 ELSE @ + 1]
    /\ UNCHANGED <<mode, ext, web, walk, num_workers, stop_flag, visited_articles,
                   mapped_articles, results, jobs, monitor, db>>

\* Initial batch: for _ in range(num_workers): if not stop_flag.is_set(): submit
LargeBatchCheck ==
    /\ mode = "large"
    /\ sched.pc = "batch"
    /\ IF sched.i < num_workers
       THEN IF ~stop_flag
            THEN sched' = [sched EXCEPT !.pc = "batch_submit"]
            ELSE sched' = [sched EXCEPT !.i = @ + 1]
       ELSE sched' = [sched EXCEPT !.pc = "loop"]
    /\ UNCHANGED <<mode, ext, web, walk, num_workers, stop_flag, visited_articles,
                   mapped_articles, results, jobs, monitor, db>>

LargeBatchSubmit ==
    /\ mode = "large"
    /\ sched.pc = "batch_submit"
    /\ HasIdle
    /\ jobs' = Submitted("pool", NoUrl)
    /\ sched' = [sched EXCEPT !.pc = "batch", !.i = @ + 1,
                              !.future_to_crawl = @ \cup {FreeId}]
    /\ UNCHANGED <<mode, ext, web, walk, num_workers, stop_flag, visited_articles,
                   mapped_articles, results, monitor, db>>

\* while future_to_crawl and not self.stop_flag.is_set()
LargeLoopTest ==
    /\ mode = "large"
    /\ sched.pc = "loop"
    /\ sched' = [sched EXCEPT !.pc = IF sched.future_to_crawl # {} /\ ~stop_flag
                                     THEN "wait" ELSE "shutdown"]
    /\ UNCHANGED <<mode, ext, web, walk, num_workers, stop_flag, visited_articles,
                   mapped_articles, results, jobs, monitor, db>>

\* concurrent.futures.wait(future_to_crawl, return_when=FIRST_COMPLETED)
LargeWait ==
    /\ mode = "large"
    /\ sched.pc = "wait"
    /\ \E f \in sched.future_to_crawl : Finished(f)
    /\ sched' = [sched EXCEPT !.pc = "process",
                              !.done = {f \in sched.future_to_crawl : Finished(f)}]
    /\ UNCHANGED <<mode, ext, web, walk, num_workers, stop_flag, visited_articles,
                   mapped_articles, results, jobs, monitor, db>>

\* for future in done: append the result, pop the future, check the stop flag
LargeProcess ==
    /\ mode = "large"
    /\ sched.pc = "process"
    /\ IF sched.done = {}
       THEN /\ sched' = [sched EXCEPT !.pc = "loop"]
            /\ UNCHANGED results
       ELSE \E f \in sched.done :
               IF Raised(f)
               THEN \* except Exception: print; the future is neither popped nor replaced
                    /\ sched' = [sched EXCEPT !.done = @ \ {f}, !.failed = @ \cup {f}]
                    /\ UNCHANGED results
               ELSE /\ results' = AppendResult(results, jobs[f].result)
                    /\ sched' = [sched EXCEPT !.done = @ \ {f},
                                              !.future_to_crawl = @ \ {f},
                                              !.pc = IF stop_flag THEN "process" ELSE "resubmit"]
    /\ UNCHANGED <<mode, ext, web, walk, num_workers, stop_flag, visited_articles,
                   mapped_articles, jobs, monitor, db>>

LargeResubmit ==
    /\ mode = "large"
    /\ sched.pc = "resubmit"
    /\ HasIdle
    /\ jobs' = Submitted("pool", NoUrl)
    /\ sched' = [sched EXCEPT !.pc = "process", !.future_to_crawl = @ \cup {FreeId}]
    /\ UNCHANGED <<mode, ext, web, walk, num_workers, stop_flag, visited_articles,
                   mapped_articles, results, monitor, db>>

PoolDrainedNoWait == TRUE

\* Leaving the with block: ThreadPoolExecutor.shutdown(wait=True)
PoolDrained == \A j \in JobIds : jobs[j].thread = "pool" => (jobs[j].pc = "idle" \/ Finished(j))

LargeShutdown ==
    /\ mode = "large"
    /\ sched.pc = "shutdown"
    /\ PoolDrained
    /\ sched' = [sched EXCEPT !.pc = "final_check"]
    /\ UNCHANGED <<mode, ext, web, walk, num_workers, stop_flag, visited_articles,
                   mapped_articles, results, jobs, monitor, db>>

\* "Final size check": self.check_database_size()
LargeFinalCheck ==
    /\ mode = "large"
    /\ sched.pc = "final_check"
    /\ \E q \in QueryResults :
          stop_flag' = FlagAfterPoll(stop_flag, LargeSizeCheck(q, monitor.max_size_gb))
    /\ sched' = [sched EXCEPT !.pc = "returned"]
    /\ UNCHANGED <<mode, ext, web, walk, num_workers, visited_articles,
                   mapped_articles, results, jobs, monitor, db>>

\* KeyboardInterrupt delivered to the main thread.  Only the with block of
\* the pool phase lies inside "try: ... except KeyboardInterrupt"; anywhere
\* else the exception leaves run_large_graph_crawl, and the crawl_article
\* call the main thread was executing is unwound where it stood.
PoolPhase == {"batch", "batch_submit", "loop", "wait", "process", "resubmit", "shutdown"}

Unwound(j) == jobs[j].thread = "main" /\ jobs[j].pc \notin {"idle", "queued", "finished"}
NotEntered(j) == jobs[j].thread = "main" /\ jobs[j].pc = "queued"

LargeKeyboardInterrupt ==
    /\ mode = "large"
    /\ ~sched.interrupted
    /\ sched.pc \notin {"returned", "raised", "aborted", "interrupt_drain"}
    /\ IF sched.pc \in PoolPhase
       THEN /\ sched' = [sched EXCEPT !.pc = "interrupt_drain", !.interrupted = TRUE,
                                      !.future_to_crawl = {}, !.done = {},
                                      !.failed = {}, !.i = 0]
            /\ UNCHANGED jobs
       ELSE /\ sched' = [sched EXCEPT !.pc = "aborted", !.interrupted = TRUE]
            /\ jobs' = [j \in JobIds |->
                          IF Unwound(j) THEN [jobs[j] EXCEPT !.pc = "abandoned"]
                          ELSE IF NotEntered(j) THEN [jobs[j] EXCEPT !.pc = "cancelled"]
                          ELSE jobs[j]]
    /\ UNCHANGED <<mode, ext, web, walk, num_workers, stop_flag, visited_articles,
                   mapped_articles, results, monitor, db>>

\* The with block is left by the exception: shutdown(wait=True) waits for the
\* pool; then "except KeyboardInterrupt: self.stop_flag.set()"
LargeInterruptDrain ==
    /\ mode = "large"
    /\ sched.pc = "interrupt_drain"
    /\ PoolDrained
    /\ stop_flag' = TRUE
    /\ sched' = [sched EXCEPT !.pc = "final_check"]
    /\ UNCHANGED <<mode, ext, web, walk, num_workers, visited_articles,
                   mapped_articles, results, jobs, monitor, db>>

\* The steps the main thread takes by itself
LargeMainThread ==
    \/ LargeSeed
    \/ LargeInitialCall
    \/ LargeInitialReturn
    \/ LargeBatchCheck
    \/ LargeBatchSubmit
    \/ LargeLoopTest
    \/ LargeWait
    \/ LargeProcess
    \/ LargeResubmit
    \/ LargeShutdown
    \/ LargeFinalCheck
    \/ LargeInterruptDrain

run_large_graph_crawl ==
    \/ LargeMainThread
    \/ LargeKeyboardInterrupt

(***************************************************************************)
(* ParallelWikiController.run_parallel_crawls (the main thread).           *)
(***************************************************************************)
ParallelSeed ==
    /\ mode = "parallel"
    /\ sched.pc = "seed"
    /\ \E ok \in BOOLEAN :
          /\ mapped_articles' = load_existing(mapped_articles, ok)
          /\ sched' = [sched EXCEPT !.pc = "precheck",
                                    !.seeded = IF ok THEN db.titles ELSE {}]
    /\ monitor' = [monitor EXCEPT !.pc = "running"]
    /\ UNCHANGED <<mode, ext, web, walk, num_workers, stop_flag, visited_articles,
                   results, jobs, db>>

\* if self.stop_flag.is_set(): return self.results
ParallelPrecheck ==
    /\ mode = "parallel"
    /\ sched.pc = "precheck"
    /\ sched' = [sched EXCEPT !.pc = IF stop_flag THEN "returned" ELSE "submit_all"]
    /\ UNCHANGED <<mode, ext, web, walk, num_workers, stop_flag, visited_articles,
                   mapped_articles, results, jobs, monitor, db>>

\* future_to_article = {executor.submit(self.crawl_article, article): article ...}
ParallelSubmitAll ==
    /\ mode = "parallel"
    /\ sched.pc = "submit_all"
    /\ jobs' = [j \in JobIds |->
                  IF j <= Len(sched.start_points)
                  THEN [IdleJob EXCEPT !.pc = "queued", !.arg = sched.start_points[j],
                                       !.late = stop_flag]
                  ELSE jobs[j]]
    /\ sched' = [sched EXCEPT !.pc = "collect",
                              !.future_to_crawl = 1..Len(sched.start_points)]
    /\ UNCHANGED <<mode, ext, web, walk, num_workers, stop_flag, visited_articles,
                   mapped_articles, results, monitor, db>>

\* for future in as_completed(future_to_article): ...
ParallelCollect ==
    /\ mode = "parallel"
    /\ sched.pc = "collect"
    /\ IF sched.done = sched.future_to_crawl
       THEN /\ sched' = [sched EXCEPT !.pc = "shutdown"]
            /\ UNCHANGED <<results, jobs>>
       ELSE \E f \in sched.future_to_crawl \ sched.done :
               /\ Finished(f)
               /\ IF stop_flag
                  THEN /\ jobs' = [j \in JobIds |->
                                     IF jobs[j].pc = "queued"
                                     THEN [jobs[j] EXCEPT !.pc = "cancelled"]
                                     ELSE jobs[j]]
                       /\ sched' = [sched EXCEPT !.pc = "shutdown", !.done = @ \cup {f}]
                       /\ UNCHANGED results
                  ELSE /\ results' = IF jobs[f].pc = "cancelled" THEN results
                                     ELSE AppendResult(results, jobs[f].result)
                       /\ sched' = [sched EXCEPT !.done = @ \cup {f}]
                       /\ UNCHANGED jobs
    /\ UNCHANGED <<mode, ext, web, walk, num_workers, stop_flag, visited_articles,
                   mapped_articles, monitor, db>>

ParallelShutdown ==
    /\ mode = "parallel"
    /\ sched.pc = "shutdown"
    /\ PoolDrained
    /\ sched' = [sched EXCEPT !.pc = "returned"]
    /\ UNCHANGED <<mode, ext, web, walk, num_workers, stop_flag, visited_articles,
                   mapped_articles, results, jobs, monitor, db>>

run_parallel_crawls ==
    \/ ParallelSeed
    \/ ParallelPrecheck
    \/ ParallelSubmitAll
    \/ ParallelCollect
    \/ ParallelShutdown

(***************************************************************************)
(* Initial states.                                                         *)
(***************************************************************************)
\* Webs the controllers crawl: every page fetched serves its locator-derived title
Page(u, next_url) == [next_url |-> next_url, title |-> get_title_from_url(u)]

WebRing ==
    [u \in Locators |->
        CASE u = UrlB_C -> Page(u, UrlA_D)
          [] u = UrlA_D -> Page(u, philosophy_url)
          [] u = philosophy_url -> Page(u, UrlBpC)
          [] u = UrlBpC -> Page(u, UrlB_C)]

ControllerWebs == {WebRing}
\* Titles the storage holds when the run starts (the load may still fail)
SeedSets == {{get_title_from_url(UrlA_D)}}
\* The runs of the Parallel controller: (start_points, target_depth)
ParallelRuns ==
    {[start_points |-> [i \in 1..MaxJobs |-> IF i % 2 = 1 THEN UrlB_C ELSE UrlA_D],
      target_depth |-> MaxDepth],
     [start_points |-> [i \in 1..MaxJobs |-> UrlA_D], target_depth |-> 1]}

NoWalk == NewWalk("none", NoUrl, 0, 0, FALSE, {})

IdleSched ==
    [pc |-> "seed", i |-> 0, cur |-> 0, future_to_crawl |-> {}, done |-> {},
     initial_articles |-> <<>>, num_initial |-> 0, target_depth |-> 0,
     start_points |-> <<>>,
     seeded |-> {},           \* history: the titles the load fetched from storage
     failed |-> {},           \* history: futures whose result() raised in the loop
     interrupted |-> FALSE]   \* a KeyboardInterrupt was delivered to the main thread

InitController ==
    /\ mode \in ControllerModes
    /\ ext = NoExt
    /\ web \in ControllerWebs
    /\ walk = NoWalk
    /\ num_workers \in 1..MaxWorkers
    /\ stop_flag = FALSE
    /\ visited_articles = {}
    /\ mapped_articles = {}
    /\ results = <<>>
    /\ jobs = [j \in JobIds |-> IdleJob]
    /\ monitor = NewMonitor(DefaultMaxSizeGb)
    /\ \E t \in SeedSets : db = [titles |-> t, calls |-> {}]
    /\ \/ /\ mode = "large"
          /\ \E n \in 0..1 : sched = [IdleSched EXCEPT !.num_initial = n]
       \/ /\ mode = "parallel"
          /\ \E run \in ParallelRuns :
                sched = [IdleSched EXCEPT !.target_depth = run.target_depth,
                                          !.start_points = run.start_points]

InitWalker ==
    /\ mode \in WalkerModes
    /\ ext = NoExt
    /\ web = [u \in Locators |-> Unfetched]
    /\ \E s \in Locators \cup {NoUrl}, m \in 0..MaxSteps :
         \/ /\ mode = "follow"
            /\ walk = NewWalk("follow", s, m, 0, FALSE, {})
         \/ /\ mode = "general"
            /\ \E d \in 1..MaxDepth : walk = NewWalk("general", s, m, d, FALSE, {})
         \/ /\ mode = "deep"
            /\ \E g \in BOOLEAN, vg \in SUBSET UrlTitles :
                  /\ (~g => vg = {})
                  /\ walk = NewWalk("deep", s, m, 0, g, vg)
    /\ num_workers = 1
    /\ stop_flag = FALSE
    /\ visited_articles = {}
    /\ mapped_articles = {}
    /\ results = <<>>
    /\ jobs = [j \in JobIds |-> IdleJob]
    /\ sched = [IdleSched EXCEPT !.pc = "none"]
    /\ monitor = NewMonitor(DefaultMaxSizeGb)
    /\ db = [titles |-> {}, calls |-> {}]

(***************************************************************************)
(* WikiCrawler.is_valid_wiki_link.  An href is a sequence of tokens: the   *)
(* path prefix, a namespace prefix, a marker or a piece of a page name;    *)
(* "x in href" holds when a token of href is x (or contains it).           *)
(***************************************************************************)
namespaces == {"File:", "Wikipedia:", "Help:", "Template:",
               "Category:", "Portal:", "Talk:", "Special:"}
\* Tokens that contain the character ':'
ColonTokens == namespaces \cup {"talk:", ":"}
HrefTokens == ColonTokens \cup {"/wiki/", "/w/", "#", "(disambiguation)", "B", "_C"}

HasToken(href, toks) == \E i \in 1..Len(href) : href[i] \in toks
StartsWith(href, tok) == Len(href) >= 1 /\ href[1] = tok

is_valid_wiki_link(href) ==
    IF ~StartsWith(href, "/wiki/") THEN FALSE
    ELSE IF HasToken(href, ColonTokens) /\ HasToken(href, namespaces) THEN FALSE
    ELSE IF HasToken(href, {"#", "(disambiguation)"}) THEN FALSE
    ELSE TRUE

\* urljoin(self.base_url, href) for an href that starts with "/wiki/" and
\* holds no further "/": the locator /wiki/<name>
urljoin(href) == << <<"wiki">>, SubSeq(href, 2, Len(href)) >>

(***************************************************************************)
(* The document BeautifulSoup parses.  The children of div.mw-parser-output*)
(* in document order are blocks: a paragraph, a list item of a ul/ol, or a *)
(* paragraph / list item nested in a container (table, div) whose classes  *)
(* are kept.  A block holds inline nodes: a text node, a link <a href>, or *)
(* another element (<i>, <b>, <span>) holding text nodes and links.        *)
(***************************************************************************)
TextNode(s) == [kind |-> "text", s |-> s, href |-> <<>>, children |-> <<>>]
LinkNode(href) == [kind |-> "a", s |-> <<"x">>, href |-> href, children |-> <<>>]
TagNode(children) == [kind |-> "tag", s |-> <<>>, href |-> <<>>, children |-> children]

\* direct: the block's parent is div.mw-parser-output (for li: its ul/ol's parent)
Block(kind, direct, classes, nodes) ==
    [kind |-> kind, direct |-> direct, classes |-> classes, nodes |-> nodes]

\* element.string: the single string the element holds, else None (here <<>>)
String(n) ==
    IF n.kind = "tag"
    THEN IF Len(n.children) = 1 THEN n.children[1].s ELSE <<>>
    ELSE n.s

RECURSIVE Concat(_, _)
\* The strings of ss[1..k] joined
Concat(ss, k) == IF k = 0 THEN <<>> ELSE Concat(ss, k - 1) \o ss[k]

\* element.text: all the text below the element
NodeText(n) ==
    IF n.kind = "tag"
    THEN Concat([i \in 1..Len(n.children) |-> n.children[i].s], Len(n.children))
    ELSE n.s
BlockText(nodes) == Concat([i \in 1..Len(nodes) |-> NodeText(nodes[i])], Len(nodes))

\* str.strip() leaves something
NonBlank(s) == \E i \in 1..Len(s) : s[i] # " "
\* str.count(ch)
Count(s, ch) == Cardinality({i \in 1..Len(s) : s[i] = ch})

\* The walk over link.previous_sibling: the strings of the siblings before
\* the link, joined in document order
PrevText(sibs) == Concat([i \in 1..Len(sibs) |-> String(sibs[i])], Len(sibs))

RECURSIVE LinksFrom(_, _, _)
\* The links among nodes[i..], each with the siblings before it (sibs) and
\* with the text of the block before it (before)
LinksFrom(nodes, i, lead) ==
    IF i > Len(nodes) THEN <<>>
    ELSE LET n == nodes[i]
             here == [href |-> n.href, sibs |-> SubSeq(nodes, 1, i - 1),
                      before |-> lead \o BlockText(SubSeq(nodes, 1, i - 1))]
         IN  (IF n.kind = "a" THEN <<here>> ELSE <<>>) \o LinksFrom(nodes, i + 1, lead)

RECURSIVE find_all_a(_, _)
\* element.find_all('a', href=True) from node i on: links in document order
find_all_a(nodes, i) ==
    IF i > Len(nodes) THEN <<>>
    ELSE LET n == nodes[i]
             lead == BlockText(SubSeq(nodes, 1, i - 1))
             here == IF n.kind = "a"
                     THEN << [href |-> n.href, sibs |-> SubSeq(nodes, 1, i - 1),
                              before |-> lead] >>
                     ELSE IF n.kind = "tag" THEN LinksFrom(n.children, 1, lead)
                     ELSE <<>>
         IN  here \o find_all_a(nodes, i + 1)

skip_classes == {"infobox", "sidebar", "metadata", "navbox", "vertical-navbox", "hatnote"}

\* open_count > close_count
in_parentheses(prev_text) == Count(prev_text, "(") > Count(prev_text, ")")

RECURSIVE FirstLink(_, _, _)
\* for link in links: the first link from k on that is valid (and, when
\* check is set, not in parentheses); 0 when the loop runs out
FirstLink(links, k, check) ==
    IF k > Len(links) THEN 0
    ELSE IF ~is_valid_wiki_link(links[k].href) THEN FirstLink(links, k + 1, check)
    ELSE IF check /\ in_parentheses(PrevText(links[k].sibs)) THEN FirstLink(links, k + 1, check)
    ELSE k

IsDirectP(b) == b.kind = "p" /\ b.direct
IsP(b) == b.kind = "p"
IsDirectLi(b) == b.kind = "li" /\ b.direct

\* paragraphs = content_div.select('div.mw-parser-output > p'), else the p
\* children of content_div (none: its child is div.mw-parser-output), else
\* content_div.find_all('p')
Paragraphs(blocks) ==
    IF SelectSeq(blocks, IsDirectP) # <<>> THEN SelectSeq(blocks, IsDirectP)
    ELSE SelectSeq(blocks, IsP)

\* The tests that make the main loop skip a paragraph
Skipped(b) == ~NonBlank(BlockText(b.nodes)) \/ b.classes \cap skip_classes # {}

RECURSIVE Scan(_, _, _)
\* for block in blocks: the href of the first link the inner loop accepts;
\* <<>> when no block yields one.  filtered: the main loop over paragraphs
Scan(blocks, i, filtered) ==
    IF i > Len(blocks) THEN <<>>
    ELSE IF filtered /\ Skipped(blocks[i]) THEN Scan(blocks, i + 1, filtered)
    ELSE LET links == find_all_a(blocks[i].nodes, 1)
             k == FirstLink(links, 1, filtered)
         IN  IF k # 0 THEN links[k].href ELSE Scan(blocks, i + 1, filtered)

ListStageSkipped(blocks) == <<>>

\* "Try list items as fallback"
ListStage(blocks) == Scan(SelectSeq(blocks, IsDirectLi), 1, FALSE)

\* The body of the try block once the content div was found: (next_url, title)
ParsePage(url, page) ==
    LET title == IF page.heading = <<>> THEN get_title_from_url(url) ELSE page.heading
        h1 == Scan(Paragraphs(page.blocks), 1, TRUE)
        h2 == ListStage(page.blocks)
        h3 == Scan(SelectSeq(page.blocks, IsP), 1, FALSE)
        href == IF h1 # <<>> THEN h1 ELSE IF h2 # <<>> THEN h2 ELSE h3
    IN  [next_url |-> IF href = <<>> THEN NoUrl ELSE urljoin(href), title |-> title]

max_retries == 3

\* What one attempt meets: session.get raises, the page lacks
\* div#mw-content-text, or the page parses
Attempts == {"raises", "no_content_div", "parsed"}

NewExtract(url, page) ==
    [pc |-> "try", url |-> url, page |-> page, retry_count |-> 0,
     result |-> Unfetched,
     fetches |-> 0,            \* history: calls of session.get
     parsed |-> FALSE]         \* history: the result comes from the page

RetryAllowedInclusive(retry_count) == retry_count <= max_retries

\* while retry_count < max_retries
RetryAllowed(retry_count) == retry_count < max_retries

\* WikiCrawler.extract_first_link, one iteration of the retry loop per step
extract_first_link ==
    /\ mode = "extract"
    /\ ext.pc = "try"
    /\ IF RetryAllowed(ext.retry_count)
       THEN \E a \in Attempts :
               IF a = "parsed"
               THEN ext' = [ext EXCEPT !.pc = "done", !.fetches = @ + 1,
                                       !.parsed = TRUE,
                                       !.result = ParsePage(ext.url, ext.page)]
               ELSE ext' = [ext EXCEPT !.retry_count = @ + 1, !.fetches = @ + 1]
       ELSE ext' = [ext EXCEPT !.pc = "done",
                      !.result = [next_url |-> NoUrl,
                                  title |-> get_title_from_url(ext.url)]]
    /\ UNCHANGED <<mode, web, walk>>
    /\ UNCHANGED ctlVars

\* One call of is_valid_wiki_link
valid_link_call ==
    /\ mode = "valid_link"
    /\ ext.pc = "call"
    /\ ext' = [ext EXCEPT !.pc = "done", !.result = is_valid_wiki_link(ext.href)]
    /\ UNCHANGED <<mode, web, walk>>
    /\ UNCHANGED ctlVars

(***************************************************************************)
(* The pages and hrefs the extractor is examined on.                       *)
(***************************************************************************)
hrefB == <<"/wiki/", "B">>
hrefC == <<"/wiki/", "B", "_C">>
hrefD == <<"/wiki/", "_C", "B">>
hrefL == <<"/wiki/", "_C">>
hrefFile == <<"/wiki/", "File:", "B">>

\* Inline nodes of the lead paragraph
LeadNodes ==
    {TextNode(<<"(">>), TextNode(<<")">>), LinkNode(hrefB), LinkNode(hrefC),
     LinkNode(hrefFile), TagNode(<<LinkNode(hrefB)>>)}

SeqsUpTo(S, n) == UNION {[1..k -> S] : k \in 0..n}

\* The documents: a lead paragraph of up to n inline nodes, placed in one of
\* the layouts below; heading is the text of h1#firstHeading (<<>>: none)
Layouts(lead) ==
    LET direct == Block("p", TRUE, {}, lead)
        nested == Block("p", FALSE, {"thumb"}, lead)
        boxed  == Block("p", FALSE, {"infobox"}, <<LinkNode(hrefD)>>)
        blank  == Block("p", TRUE, {}, <<TextNode(<<" ">>)>>)
        later  == Block("p", TRUE, {}, <<LinkNode(hrefFile), LinkNode(hrefD)>>)
        item   == Block("li", TRUE, {}, <<LinkNode(hrefFile), LinkNode(hrefL)>>)
        subitem == Block("li", FALSE, {}, <<LinkNode(hrefL)>>)
    IN  {[heading |-> Philosophy, blocks |-> <<direct>>],
         [heading |-> <<>>,       blocks |-> <<boxed, nested>>],
         [heading |-> <<>>,       blocks |-> <<direct, item>>],
         [heading |-> Philosophy, blocks |-> <<boxed, direct, subitem>>],
         [heading |-> Philosophy, blocks |-> <<blank, direct, later>>],
         [heading |-> <<>>,       blocks |-> <<item, direct, boxed>>]}

Pages(n) == UNION {Layouts(lead) : lead \in SeqsUpTo(LeadNodes, n)}

Hrefs == SeqsUpTo(HrefTokens, MaxHrefLen)

IdleController ==
    /\ web = [u \in Locators |-> Unfetched]
    /\ walk = NoWalk
    /\ num_workers = 1
    /\ stop_flag = FALSE
    /\ visited_articles = {}
    /\ mapped_articles = {}
    /\ results = <<>>
    /\ jobs = [j \in JobIds |-> IdleJob]
    /\ sched = [IdleSched EXCEPT !.pc = "none"]
    /\ monitor = NewMonitor(DefaultMaxSizeGb)
    /\ db = [titles |-> {}, calls |-> {}]

\* One call extract_first_link(url) on a page of the given set
InitExtractOn(urls, pages) ==
    /\ mode = "extract"
    /\ \E u \in urls, page \in pages : ext = NewExtract(u, page)
    /\ IdleController

InitExtract == InitExtractOn({UrlB_C}, Pages(MaxNodes))

InitValidLink ==
    /\ mode = "valid_link"
    /\ \E h \in Hrefs : ext = [pc |-> "call", href |-> h, result |-> FALSE]
    /\ IdleController

ExtractNext == extract_first_link \/ valid_link_call

ExtractSpec == (InitExtract \/ InitValidLink) /\ [][ExtractNext]_vars

\* The retry loop on its own: the thread calling extract_first_link keeps running
InitRetry == InitExtractOn(Locators, Pages(1))

RetrySpec == InitRetry /\ [][extract_first_link]_vars /\ WF_vars(extract_first_link)

\* The stages of one call on their own: the same layouts, shorter lead paragraphs
InitCascade == InitExtractOn({UrlB_C}, Pages(MaxLead))

CascadeSpec == InitCascade /\ [][extract_first_link]_vars

Init == InitWalker \/ InitController

Next ==
    \/ Begin
    \/ follow_path
    \/ follow_general_path
    \/ crawl_deeply
    \/ \E j \in JobIds : crawl_article_large(j)
    \/ \E j \in JobIds : crawl_article_parallel(j)
    \/ size_monitor_thread
    \/ check_database_size_parallel
    \/ run_large_graph_crawl
    \/ run_parallel_crawls

Spec == Init /\ [][Next]_vars

\* A controller run with a single pool thread in which every thread that can
\* take a step eventually takes one: the main thread and the thread running
\* a job.  No fairness is assumed of the size monitor's polls or of interrupts.
ControllerNext ==
    \/ \E j \in JobIds : crawl_article_large(j)
    \/ \E j \in JobIds : crawl_article_parallel(j)
    \/ size_monitor_thread
    \/ check_database_size_parallel
    \/ run_large_graph_crawl
    \/ run_parallel_crawls

InitSingleWorker == InitController /\ num_workers = 1

ControllerSpec ==
    /\ InitSingleWorker
    /\ [][ControllerNext]_vars
    /\ WF_vars(LargeMainThread)
    /\ WF_vars(run_parallel_crawls)
    /\ \A j \in JobIds : WF_vars(crawl_article_large(j))
    /\ \A j \in JobIds : WF_vars(crawl_article_parallel(j))

\* A size monitor thread on its own, from its start to its end or MaxPolls polls
InitMonitor ==
    /\ mode \in MonitorModes
    /\ ext = NoExt
    /\ web = [u \in Locators |-> Unfetched]
    /\ walk = NoWalk
    /\ num_workers = 1
    /\ stop_flag = FALSE
    /\ visited_articles = {}
    /\ mapped_articles = {}
    /\ results = <<>>
    /\ jobs = [j \in JobIds |-> IdleJob]
    /\ sched = [IdleSched EXCEPT !.pc = "none"]
    /\ \E m \in 1..MaxSizeGb : monitor = [NewMonitor(m) EXCEPT !.pc = "running"]
    /\ db = [titles |-> {}, calls |-> {}]

MonitorNext == size_monitor_thread \/ check_database_size_parallel

MonitorSpec == InitMonitor /\ [][MonitorNext]_vars

\* A single walk on its own; the thread running it keeps taking steps.
WalkNext ==
    \/ Begin
    \/ follow_path
    \/ follow_general_path
    \/ crawl_deeply

WalkSpec == InitWalker /\ [][WalkNext]_vars /\ WF_vars(WalkNext)

(***************************************************************************)
(* Properties of the crawler, checked against the model.                   *)
(***************************************************************************)
NoDuplicates(s) == \A i, k \in 1..Len(s) : s[i] = s[k] => i = k

\* The job has merged its walk into the shared visited set (Large controller)
Merged(j) ==
    /\ mode = "large"
    /\ jobs[j].pc \in {"check2", "store", "finished"}
    /\ jobs[j].w.pc = "done"

\* C1: no path is written to storage while the stop flag is set: no
\* store_path call of either controller begins in a state where stop_flag
\* is set, whatever the interleaving of the monitor with the worker threads.
C1_NoStoreWhileStopped == \A c \in db.calls : ~c.flag

\* C2: a crawl_article call that begins executing after the stop flag is set
\* returns None without fetching an article, without touching the shared
\* visited set and without calling store_path; so no job accepted into the
\* pool after the flag was raised ever persists a path.
C2_LateJobInert ==
    /\ [](\A c \in db.calls : ~jobs[c.job].late)
    /\ [][\A j \in JobIds :
            (jobs[j].pc = "queued" /\ stop_flag /\ jobs'[j].pc # "queued")
            => /\ jobs'[j].pc \in {"finished", "cancelled"}
               /\ jobs'[j].result = NoneResult
               /\ jobs'[j].w = IdleJob.w
               /\ UNCHANGED <<visited_articles, mapped_articles, db, web>>]_vars

C2_Witness == \E j \in JobIds : jobs[j].late /\ jobs[j].pc = "finished"

\* C3: the shared visited set of a controller (visited_articles,
\* mapped_articles) never loses an element: in every step the set is a
\* superset of what it was, for every interleaving of seed and merge steps.
C3_VisitedNeverShrinks ==
    [][/\ visited_articles \subseteq visited_articles'
       /\ mapped_articles \subseteq mapped_articles']_vars

C3_Witness ==
    /\ mode = "parallel"
    /\ db.titles # {}
    /\ db.titles \subseteq mapped_articles
    /\ mapped_articles # db.titles
    /\ \E j \in JobIds : jobs[j].pc = "finished" /\ ~jobs[j].result.none

\* C4: two concurrent crawl_article jobs of the Large controller that both
\* reach a title unseen in their snapshots both complete their walks, neither
\* stops as already-known at a title that was neither in its own snapshot nor
\* found by itself, and once a job has merged, the shared set holds every
\* title that job discovered: no merge overwrites another job's titles.
C4_ConcurrentDiscovery ==
    mode = "large" =>
      /\ \A j \in JobIds : Merged(j) => jobs[j].w.visited_articles \subseteq visited_articles
      /\ \A j \in JobIds :
            jobs[j].pc \in {"merge", "check2", "store"} => jobs[j].w.pc = "done"
      /\ \A j \in JobIds :
            jobs[j].w.reason = "already_known"
            => get_title_from_url(Last(jobs[j].w.path))
                  \in jobs[j].w.supplied \cup jobs[j].w.visited_articles

C4_Witness ==
    \E j, k \in JobIds :
       /\ j # k
       /\ Merged(j) /\ Merged(k)
       /\ jobs[j].w.supplied = jobs[k].w.supplied
       /\ \E t \in jobs[j].w.visited_articles \cap jobs[k].w.visited_articles :
             /\ t # get_title_from_url(jobs[j].w.start_url)
             /\ t # get_title_from_url(jobs[k].w.start_url)
             /\ t \in visited_articles

\* C5: in follow_path, when the first link of the current tail already
\* appears in the path, the walk stops with the repeated locator not
\* appended; for the cycle X -> Y -> Z -> X walked from X with budget 5 the
\* path is [X, Y, Z] and the step count 2.
C5_FollowPathLoopNotAppended ==
    (mode = "follow" /\ walk.pc = "done")
    => /\ NoDuplicates(walk.path)
       /\ ( /\ walk.start_url = UrlB_C /\ walk.max_steps = 5
            /\ web[UrlB_C].next_url = UrlBpC /\ web[UrlBpC].next_url = UrlA_D
            /\ web[UrlA_D].next_url = UrlB_C
            /\ \A u \in {UrlB_C, UrlBpC, UrlA_D} : web[u].title # Philosophy )
          => (walk.path = <<UrlB_C, UrlBpC, UrlA_D>> /\ walk.steps = 2)
Occurrences(s, x) == Cardinality({i \in 1..Len(s) : s[i] = x})

\* C6: the path returned by crawl_deeply and follow_general_path never holds
\* the same locator twice: when the next link is already in the path the walk
\* stops without appending it, and the cycle start is the one earlier
\* occurrence of that locator.
C6_NoRepeatedLocator ==
    /\ [](/\ mode \in {"general", "deep"}
             => /\ NoDuplicates(walk.path)
                /\ walk.reason = "loop"
                   => Occurrences(walk.path, web[Last(walk.path)].next_url) = 1
          /\ \A j \in JobIds : NoDuplicates(jobs[j].w.path))
    /\ [][(mode \in {"general", "deep"} /\ walk.reason # "loop" /\ walk'.reason = "loop")
          => walk'.path = walk.path]_vars

C6_Witness ==
    /\ mode = "deep" /\ walk.reason = "loop" /\ Len(walk.path) = 3
    /\ web[Last(walk.path)].next_url = walk.path[1]

\* C7: for every walk and every stop reason the reported step count is
\* len(path) - 1: the steps value of follow_path and the steps field of every
\* result record built by either controller's crawl_article.
C7_StepsIsPathLengthMinusOne ==
    /\ (mode = "follow" /\ walk.pc # "begin") => walk.steps = Len(walk.path) - 1
    /\ \A j \in JobIds :
          ~jobs[j].result.none => jobs[j].result.steps = Len(jobs[j].result.path) - 1
    /\ \A i \in 1..Len(results) : results[i].steps = Len(results[i].path) - 1

C7_Witness ==
    \E i \in 1..Len(results), j \in JobIds :
       /\ results[i] = jobs[j].result
       /\ jobs[j].w.reason = "already_known"
       /\ results[i].steps = 3

\* C8: in crawl_deeply, when the title of the next link is already in the
\* visited set (and its locator is not in the path), the next link is
\* appended exactly once and the walk stops at once: the path grows by one
\* element, the already-known article is never passed to the extractor, the
\* stop adds nothing to the walk's newly visited titles, and no title of the
\* set the caller supplied is ever among them.
C8_AlreadyKnownAppendedOnce ==
    /\ [](/\ mode = "deep"
             => /\ walk.visited_articles \cap walk.supplied = {}
                /\ walk.reason = "already_known"
                   => /\ Last(walk.path) \notin walk.extracted
                      /\ Occurrences(walk.path, Last(walk.path)) = 1
          /\ \A j \in JobIds :
                /\ jobs[j].w.visited_articles \cap jobs[j].w.supplied = {}
                /\ jobs[j].w.reason = "already_known"
                   => Last(jobs[j].w.path) \notin jobs[j].w.extracted)
    /\ [][( /\ mode = "deep" /\ walk.pc = "loop" /\ walk' # walk
            /\ walk.steps < walk.max_steps
            /\ web'[walk.current_url].next_url # NoUrl
            /\ ~InList(web'[walk.current_url].next_url, walk.path)
            /\ walk.vg_given
            /\ get_title_from_url(web'[walk.current_url].next_url) \in walk.visited_global )
          => /\ walk'.pc = "done" /\ walk'.reason = "already_known"
             /\ walk'.path = Append(walk.path, web'[walk.current_url].next_url)
             /\ walk'.visited_articles = walk.visited_articles
             /\ walk'.steps = walk.steps]_vars

C8_Witness ==
    /\ mode = "deep" /\ walk.reason = "already_known" /\ Len(walk.path) = 3
    /\ get_title_from_url(Last(walk.path)) \in walk.supplied

\* C9: in follow_path, if the k-th resolved title is the first one equal to
\* "Philosophy" (and k - 1 < max_steps), the walk stops at that article with
\* steps = k - 1 and path length k, whether or not the article has a next
\* link or closes a loop: the target check comes before the loop and
\* dead-end checks.
C9_TargetStopsWalk ==
    mode = "follow" =>
      \A i \in 1..Len(walk.path) :
         (walk.path[i] \in DOMAIN walk.titles /\ walk.titles[walk.path[i]] = Philosophy)
         => /\ i = Len(walk.path)
            /\ walk.pc = "done" /\ walk.reason = "target"
            /\ walk.steps = i - 1

C9_Witness ==
    /\ mode = "follow" /\ walk.reason = "target"
    /\ Len(walk.path) = 4 /\ walk.steps = 3
    /\ web[Last(walk.path)].next_url = walk.path[1]

\* C10: every walk ends within its step budget: follow_path,
\* follow_general_path and crawl_deeply call the extractor at most max_steps
\* times and return a path with len(path) - 1 <= max_steps, and a started
\* walk always reaches a terminal stop reason.
C10_WalkEndsWithinBudget ==
    /\ [](walk.calls <= walk.max_steps /\ Len(walk.path) - 1 <= walk.max_steps)
    /\ <>(walk.pc = "done")

C10_Witness ==
    /\ walk.pc = "done" /\ walk.reason = "step_limit"
    /\ walk.calls = walk.max_steps /\ walk.max_steps = 3

\* The first-link edges of a path: each element but the first is the link the
\* extractor returned for its predecessor
FirstLinkChain(path) ==
    \A i \in 1..(Len(path) - 1) : web[path[i]].next_url = path[i + 1]

\* C11: in every path of the three walkers the path is non-empty, its first
\* element is the start article, and each further element is exactly the link
\* the extractor returned for the element before it; a step of a walk leaves
\* the path alone or appends the current tail's first link.
C11_PathFollowsFirstLinks ==
    /\ [](/\ (mode \in WalkerModes /\ walk.pc # "begin")
              => /\ Len(walk.path) >= 1
                 /\ walk.path[1] = walk.start_url
                 /\ FirstLinkChain(walk.path)
          /\ \A j \in JobIds :
                jobs[j].w.pc = "done"
                => /\ Len(jobs[j].w.path) >= 1
                   /\ jobs[j].w.path[1] = jobs[j].start_url
                   /\ FirstLinkChain(jobs[j].w.path))
    /\ [][(mode \in WalkerModes /\ walk.pc = "begin" /\ walk'.pc # "begin"
           /\ walk.start_url # NoUrl)
          => walk'.path = <<walk.start_url>>]_vars
    /\ [][(mode \in WalkerModes /\ walk.pc = "loop")
          => \/ walk'.path = walk.path
             \/ walk'.path = Append(walk.path, web'[Last(walk.path)].next_url)]_vars

C11_Witness ==
    /\ mode = "general" /\ walk.pc = "done" /\ Len(walk.path) = 3
    /\ walk.path[1] = UrlBpC /\ walk.path[3] = UrlB_C

\* C12: crawl_deeply leaves the set it is given as visited_global as it
\* was: when the walk has returned, the set holds exactly the titles the
\* caller passed.
C12_VisitedGlobalReadOnly ==
    /\ (mode = "deep" /\ walk.vg_given /\ walk.pc = "done")
       => walk.visited_global = walk.supplied
    /\ \A j \in JobIds :
          (jobs[j].w.vg_given /\ jobs[j].w.pc = "done")
          => jobs[j].w.visited_global = jobs[j].w.supplied

\* Futures the scheduler tracks that have not ended in an exception it has seen
InFlight == sched.future_to_crawl \ sched.failed

\* C13: in the pool phase of run_large_graph_crawl, whenever the scheduler
\* waits for a completion with the stop flag unset, exactly num_workers jobs
\* are in flight: every completion it has handled was followed by one
\* replacement.
C13_WindowIsFull ==
    (mode = "large" /\ sched.pc = "wait" /\ ~stop_flag)
    => Cardinality(InFlight) = num_workers

\* C14: a job that raises does not end run_large_graph_crawl, and when the
\* scheduler handles the failed future with the stop flag unset it submits a
\* replacement job.
C14_FailedSlotRefilled ==
    /\ [](sched.pc # "raised")
    /\ [][\A f \in JobIds :
            ( /\ mode = "large" /\ sched.pc = "process"
              /\ f \in sched.done /\ f \notin sched'.done
              /\ Raised(f) /\ ~stop_flag
              /\ sched'.interrupted = sched.interrupted )
            => sched'.pc = "resubmit"]_vars

\* C16: after a KeyboardInterrupt, run_large_graph_crawl never leaves by the
\* exception and unwinds no crawl_article call; when it goes on to its final
\* steps the stop flag is set and every job has finished.
C16_InterruptDrains ==
    (mode = "large" /\ sched.interrupted)
    => /\ sched.pc # "aborted"
       /\ \A j \in JobIds : jobs[j].pc # "abandoned"
       /\ sched.pc \in {"final_check", "returned"}
          => (stop_flag /\ \A j \in JobIds : jobs[j].pc = "idle" \/ Finished(j))

\* C17: the stop flag is monotonic: no step of the scheduler, the size
\* monitor, the final size check or a job clears it once it is set.
C17_StopFlagMonotonic == [][stop_flag => stop_flag']_vars

C17_Witness ==
    /\ mode = "large" /\ stop_flag /\ sched.pc = "returned"
    /\ ~sched.interrupted /\ monitor.pc = "ended"
    /\ Len(results) >= 1

\* C18: seeding precedes all crawling: while the load of the stored titles
\* has not finished no job exists, every snapshot a Large job walks with holds
\* every seeded title, and in the Parallel controller the mapped set holds
\* every seeded title from the first job on.
C18_SeedingFirst ==
    /\ sched.pc = "seed" => \A j \in JobIds : jobs[j].pc = "idle"
    /\ \A j \in JobIds :
          /\ (mode = "large" /\ jobs[j].w.pc = "done")
             => sched.seeded \subseteq jobs[j].w.supplied
          /\ (mode = "parallel" /\ jobs[j].pc # "idle")
             => sched.seeded \subseteq mapped_articles

C18_Witness ==
    \E j \in JobIds :
       /\ mode = "large" /\ jobs[j].w.reason = "already_known"
       /\ sched.seeded # {}
       /\ get_title_from_url(Last(jobs[j].w.path)) \in sched.seeded

\* The next step of the job is a network fetch or a storage call
FetchOrStorePending(j) == jobs[j].pc \in {"random_locked", "store"}

\* C19: no thread performs a network fetch or a storage call while it holds
\* the lock of the shared visited set.
C19_LockOnlyForSetOperations ==
    \A j \in JobIds : HoldsMappedLock(j) => ~FetchOrStorePending(j)

\* C20: when the run returns, the results list holds one record for every
\* job that handed its path to storage.
C20_EveryStoredPathCounted ==
    (mode \in ControllerModes /\ sched.pc = "returned")
    => Len(results) = Cardinality(db.calls)

\* The job ids are used up while the main thread is about to submit a job
OutOfJobIds ==
    /\ ~HasIdle
    /\ \/ sched.pc \in {"batch_submit", "resubmit"}
       \/ sched.pc = "initial" /\ sched.i < sched.num_initial

\* run_large_graph_crawl has been left: by its return, or by an exception of
\* the initial crawls or an interrupt outside the pool phase
LargeRunEnded == sched.pc \in {"returned", "raised", "aborted"}

PersistenceFailed(j) ==
    /\ jobs[j].pc = "finished" /\ ~jobs[j].raised
    /\ jobs[j].w.pc = "done"
    /\ ~jobs[j].result.none
    /\ \/ \E c \in db.calls : c.job = j /\ ~c.ok
       \/ \A c \in db.calls : c.job # j

\* C21: a persistence failure loses no path and does not end the run: the
\* call returns a record holding the whole path with path_id None, the run
\* does not end by an exception, and when it returns the record is in results.
C21_PersistenceFailureKept ==
    \A j \in JobIds :
       (mode \in ControllerModes /\ PersistenceFailed(j))
       => /\ jobs[j].result.path = jobs[j].w.path
          /\ jobs[j].result.path_id = 0
          /\ sched.pc = "returned" => InList(jobs[j].result, results)

\* The poll saw a storage size that is at least the ceiling
ObservedReached(q, max_size_gb) == q.kind = "size" /\ q.size_gb >= max_size_gb

\* C22: the size monitor has set the stop flag exactly when one of its polls
\* observed a storage size >= max_size_gb; polls that observed a smaller
\* size, no size, or failed leave the flag unset.
C22_FlagIffSizeReached ==
    mode \in MonitorModes
    => (stop_flag <=> \E i \in 1..Len(monitor.seen) :
                          ObservedReached(monitor.seen[i], monitor.max_size_gb))

C22_Witness ==
    /\ mode = "monitor_parallel" /\ stop_flag /\ Len(monitor.seen) = 3
    /\ monitor.seen[1].kind = "null"
    /\ monitor.seen[2].kind = "size" /\ monitor.seen[2].size_gb < monitor.max_size_gb
    /\ monitor.seen[3].kind = "size" /\ monitor.seen[3].size_gb = monitor.max_size_gb

\* Every locator of the path has an entry in titles
AllTitled(w) == \A i \in 1..Len(w.path) : w.path[i] \in DOMAIN w.titles

\* C28: when a walker returns, every locator of its path has an entry in
\* titles, whatever made the walk stop.
C28_EveryPathNodeTitled ==
    /\ (mode \in WalkerModes /\ walk.pc = "done") => AllTitled(walk)
    /\ \A j \in JobIds : jobs[j].w.pc = "done" => AllTitled(jobs[j].w)

\* C29: a completed future the scheduler loop of run_large_graph_crawl has
\* handled is no longer in the tracking map, whether its job returned a
\* result, returned None or raised; so no wait returns for it a second time.
C29_HandledFutureLeavesMap ==
    [][\A f \in JobIds :
          ( /\ mode = "large" /\ sched.pc = "process"
            /\ f \in sched.done /\ f \notin sched'.done
            /\ sched'.interrupted = sched.interrupted )
          => f \notin sched'.future_to_crawl]_vars

\* C30: when follow_general_path reports that the target depth was reached,
\* the walk followed target_depth steps (the path has target_depth edges and
\* the result record has steps = target_depth); it reports False when fewer
\* steps were followed.
C30_ReachedMeansDepthSteps ==
    /\ (mode = "general" /\ walk.pc = "done")
       => (walk.reached <=> Len(walk.path) - 1 = walk.target_depth)
    /\ \A j \in JobIds :
          (mode = "parallel" /\ jobs[j].pc = "finished" /\ ~jobs[j].result.none)
          => (jobs[j].result.reached_target <=> jobs[j].result.steps = sched.target_depth)

\* Link k of paragraph b is a valid article link outside any parenthetical:
\* the text of the paragraph before it holds no more "(" than ")"
Candidate(b, k) ==
    LET l == find_all_a(b.nodes, 1)[k]
    IN  /\ is_valid_wiki_link(l.href)
        /\ Count(l.before, "(") <= Count(l.before, ")")

\* The positions (i, k) of the candidates among the content paragraphs ps
Candidates(ps) ==
    {c \in (1..Len(ps)) \X (1..MaxNodes + 1) :
        /\ ~Skipped(ps[c[1]])
        /\ c[2] <= Len(find_all_a(ps[c[1]].nodes, 1))
        /\ Candidate(ps[c[1]], c[2])}

Earlier(c, d) == c[1] < d[1] \/ (c[1] = d[1] /\ c[2] <= d[2])
FirstOf(cs) == CHOOSE c \in cs : \A d \in cs : Earlier(c, d)

\* C23: when a paragraph holds a valid link outside parentheses, the
\* extractor returns the first such link in document order (content
\* paragraphs in order, links within a paragraph in order).
C23_FirstLinkOutsideParentheses ==
    (mode = "extract" /\ ext.pc = "done" /\ ext.parsed)
    => LET ps == Paragraphs(ext.page.blocks)
           cs == Candidates(ps)
       IN  cs # {} =>
             ext.result.next_url =
                urljoin(find_all_a(ps[FirstOf(cs)[1]].nodes, 1)[FirstOf(cs)[2]].href)

\* The positions (i, k) of the valid links of the blocks bs; with filtered,
\* only links the paragraph stage accepts: the block is not skipped and the
\* text of the siblings before the link has no unclosed "("
Hits(bs, filtered) ==
    {c \in (1..Len(bs)) \X (1..MaxNodes + 1) :
        /\ c[2] <= Len(find_all_a(bs[c[1]].nodes, 1))
        /\ is_valid_wiki_link(find_all_a(bs[c[1]].nodes, 1)[c[2]].href)
        /\ filtered => /\ ~Skipped(bs[c[1]])
                       /\ ~in_parentheses(PrevText(find_all_a(bs[c[1]].nodes, 1)[c[2]].sibs))}

UrlAt(bs, c) == urljoin(find_all_a(bs[c[1]].nodes, 1)[c[2]].href)

\* C24: the extractor returns the paragraph stage's first link when there is
\* one; only otherwise the first valid link of the list items directly under
\* the content container; only when there is none either the first valid
\* link of any paragraph; and no link only when all three stages have none.
C24_FallbackCascade ==
    (mode = "extract" /\ ext.pc = "done" /\ ext.parsed)
    => LET ps == Paragraphs(ext.page.blocks)
           items == SelectSeq(ext.page.blocks, IsDirectLi)
           anyp == SelectSeq(ext.page.blocks, IsP)
           s1 == Hits(ps, TRUE)
           s2 == Hits(items, FALSE)
           s3 == Hits(anyp, FALSE)
       IN  ext.result.next_url =
              IF s1 # {} THEN UrlAt(ps, FirstOf(s1))
              ELSE IF s2 # {} THEN UrlAt(items, FirstOf(s2))
              ELSE IF s3 # {} THEN UrlAt(anyp, FirstOf(s3))
              ELSE NoUrl

C24_Witness ==
    /\ mode = "extract" /\ ext.pc = "done" /\ ext.parsed
    /\ Len(ext.page.blocks) = 2
    /\ ext.page.blocks[1].kind = "p" /\ ext.page.blocks[1].nodes = <<LinkNode(hrefFile)>>
    /\ ext.page.blocks[2].kind = "li"
    /\ ext.result.next_url = urljoin(hrefL)

\* The namespace prefixes the specification lists
ListedNamespaces == {"File:", "Help:", "Template:", "Category:", "Portal:",
                     "Talk:", "Special:"}

\* The target of href (what follows "/wiki/") begins with one of the prefixes ns
TargetBegins(href, ns) == Len(href) >= 2 /\ href[2] \in ns

\* C25: is_valid_wiki_link(href) is true exactly when href starts with
\* "/wiki/", its target does not begin with a listed namespace prefix, and
\* href holds neither "#" nor "(disambiguation)".
C25_ValidLinkExactly ==
    (mode = "valid_link" /\ ext.pc = "done")
    => (ext.result <=> /\ StartsWith(ext.href, "/wiki/")
                       /\ ~TargetBegins(ext.href, ListedNamespaces)
                       /\ ~HasToken(ext.href, {"#", "(disambiguation)"}))

\* C26: extract_first_link fetches at most max_retries times; when every
\* attempt failed it returns no next link with the title derived from the
\* locator, and the call always comes to its end.
C26_BoundedRetries ==
    /\ [](mode = "extract" =>
            /\ ext.fetches <= 3
            /\ ext.retry_count <= 3
            /\ (ext.pc = "done" /\ ~ext.parsed)
               => /\ ext.result = [next_url |-> NoUrl,
                                   title |-> get_title_from_url(ext.url)]
                  /\ ext.fetches = 3)
    /\ <>(ext.pc = "done")

C26_Witness ==
    /\ mode = "extract" /\ ext.pc = "done" /\ ~ext.parsed /\ ext.fetches = 3
    /\ ext.url = UrlBpC /\ ext.result.title = <<"B", " ", "C">>
    /\ ext.page.heading = Philosophy

\* The crawl_article call of job j is being executed by a thread
Executing(j) == jobs[j].pc \notin {"idle", "queued", "finished", "cancelled", "abandoned"}

\* C31: at most num_workers walks execute at once in either controller:
\* run_large_graph_crawl tracks at most num_workers futures and runs its
\* initial crawls one at a time, before any job is given to the pool;
\* run_parallel_crawls runs at most num_workers of the submitted jobs at once.
C31_AtMostNumWorkersWalks ==
    mode \in ControllerModes
    => /\ Cardinality({j \in JobIds : Executing(j)}) <= num_workers
       /\ mode = "large"
          => /\ Cardinality(sched.future_to_crawl) <= num_workers
             /\ Cardinality({j \in JobIds : jobs[j].thread = "main" /\ Executing(j)}) <= 1
             /\ (\E j \in JobIds : jobs[j].thread = "main" /\ Executing(j))
                => \A k \in JobIds : jobs[k].thread = "pool" => jobs[k].pc = "idle"

\* More start points were submitted than there are workers: one walk runs, one waits
C31_Witness ==
    /\ mode = "parallel"
    /\ num_workers < Cardinality(sched.future_to_crawl)
    /\ Cardinality({j \in JobIds : Executing(j)}) = num_workers
    /\ \E j \in JobIds : jobs[j].pc = "queued"

\* The latest poll of the monitor failed with an error
LastPollFailed == Len(monitor.seen) > 0 /\ Last(monitor.seen).kind = "error"

\* C32: a poll that fails with an error does not end monitoring: after a
\* failed poll the monitor of either controller is still running, so a later
\* successful poll at or above the ceiling can still set the stop flag.
C32_ErrorPollKeepsMonitoring ==
    (mode \in MonitorModes /\ LastPollFailed) => monitor.pc = "running"

\* The titles of the articles of the path of walk w: as the walk resolved
\* them, or as their locators give them
PathTitles(w) ==
    {TitlesGet(w.titles, w.path[i], get_title_from_url(w.path[i])) : i \in 1..Len(w.path)}
    \cup {get_title_from_url(w.path[i]) : i \in 1..Len(w.path)}

\* store_path was called with the path of job j
HandedToStorage(j) == \E c \in db.calls : c.job = j /\ c.path = jobs[j].w.path

\* crawl_deeply / follow_general_path of job j has returned its path
WalkReturned(j) == jobs[j].w.pc = "done" /\ Len(jobs[j].w.path) > 0

\* C33 (as stated): every title in the shared visited set of a controller
\* is a seeded title or the title of an article of a path that was handed
\* to storage.
C33_VisitedOnlyPersisted ==
    mode \in ControllerModes
    => \A t \in visited_articles \cup mapped_articles :
          \/ t \in sched.seeded
          \/ \E j \in JobIds : HandedToStorage(j) /\ t \in PathTitles(jobs[j].w)

\* C33 (amended): every title in mapped_articles of the Parallel controller
\* is a seeded title or the title of an article of a path handed to storage;
\* every title in visited_articles of the Large controller is a seeded title
\* or the title of an article of the path of a walk that has returned,
\* whether or not its result was later discarded or left unstored.
C33_VisitedOnlyWalked ==
    mode \in ControllerModes
    => /\ \A t \in mapped_articles :
             \/ t \in sched.seeded
             \/ \E j \in JobIds : HandedToStorage(j) /\ t \in PathTitles(jobs[j].w)
       /\ \A t \in visited_articles :
             \/ t \in sched.seeded
             \/ \E j \in JobIds : WalkReturned(j) /\ t \in PathTitles(jobs[j].w)

\* A Parallel job whose storage connection failed has returned its record,
\* and an article of its path is not in mapped_articles
C33_Witness ==
    /\ mode = "parallel"
    /\ \E j \in JobIds :
          /\ PersistenceFailed(j)
          /\ ~HandedToStorage(j)
          /\ PathTitles(jobs[j].w) \ mapped_articles # {}

\* Job j leaves the check of mapped_articles and walks: the step from the
\* with block (lines 155-168) to the return of follow_general_path
StartsWalk(j) ==
    /\ mode = "parallel"
    /\ jobs[j].pc \in {"mapcheck", "random_locked"}
    /\ jobs'[j].pc = "check2"

Mapped(u) == get_title_from_url(u) \in mapped_articles

\* C34 (as stated): ParallelWikiController.crawl_article never starts a walk
\* from an article whose title is in mapped_articles at its check.
C34_NeverWalksMapped ==
    [][\A j \in JobIds : StartsWalk(j) => ~Mapped(jobs'[j].w.path[1])]_vars

\* C34 (amended): an unmapped requested start is walked as it is; a mapped
\* one is replaced by a random article that is not mapped when one of the
\* (at most five) random articles fetched is not mapped, and is walked
\* although it is mapped when every random article fetched was mapped too.
C34_WalksMappedOnlyAfterRetries ==
    [][\A j \in JobIds :
          StartsWalk(j)
          => LET s == jobs'[j].w.path[1]
             IN  IF ~Mapped(jobs[j].arg)
                 THEN s = jobs[j].arg
                 ELSE \/ s \in RandomArticles /\ ~Mapped(s)
                      \/ s = jobs[j].arg /\ \E r \in RandomArticles : Mapped(r)]_vars

\* A job whose requested start was mapped has walked from a random article
C34_Witness ==
    /\ mode = "parallel"
    /\ \E j \in JobIds :
          /\ jobs[j].w.pc = "done"
          /\ get_title_from_url(jobs[j].arg) \in sched.seeded
          /\ jobs[j].w.path[1] # jobs[j].arg
          /\ jobs[j].w.path[1] \in RandomArticles

\* The link occurrence at position c of the blocks bs
LinkAt(bs, c) == find_all_a(bs[c[1]].nodes, 1)[c[2]]

\* The link the extractor returned from page: the first hit of the first
\* stage that has one (paragraph stage, list items, all paragraphs)
ReturnedLink(page) ==
    LET ps == Paragraphs(page.blocks)
        items == SelectSeq(page.blocks, IsDirectLi)
        anyp == SelectSeq(page.blocks, IsP)
    IN  IF Hits(ps, TRUE) # {} THEN LinkAt(ps, FirstOf(Hits(ps, TRUE)))
        ELSE IF Hits(items, FALSE) # {} THEN LinkAt(items, FirstOf(Hits(items, FALSE)))
        ELSE LinkAt(anyp, FirstOf(Hits(anyp, FALSE)))

\* C35: whatever stage produced it, the link extract_first_link returns
\* satisfies is_valid_wiki_link, and the text preceding it in its paragraph
\* (or list item) has no more "(" than ")".
C35_ReturnedLinkOutsideParentheses ==
    (mode = "extract" /\ ext.pc = "done" /\ ext.parsed /\ ext.result.next_url # NoUrl)
    => LET l == ReturnedLink(ext.page)
       IN  /\ ext.result.next_url = urljoin(l.href)
           /\ is_valid_wiki_link(l.href)
           /\ Count(l.before, "(") <= Count(l.before, ")")

(***************************************************************************)
(* What the callers of follow_path derive from (path, steps, titles).      *)
(***************************************************************************)
\* run_experiment / wiki_single_article: self.philosophy_url in path
reached_philosophy(path) == InList(philosophy_url, path)

\* wiki_single_article.main, "Find where we got stuck", for a run of
\* follow_path(url, max_steps) that returned (path, steps, titles)
ReportedOutcome(path, steps, max_steps) ==
    IF reached_philosophy(path) THEN "target"
    ELSE IF steps >= max_steps THEN "step_limit"
    ELSE IF InList(Last(path), AllButLast(path)) THEN "loop"
    ELSE "dead_end"

\* C36: the outcome the callers of follow_path derive matches the reason
\* the walk stopped: reached_philosophy is true exactly when the walk
\* stopped because a resolved title was "Philosophy", and every other run
\* is reported as step limit, loop or dead end as the walker stopped.
C36_ReportedOutcomeIsStopReason ==
    (mode = "follow" /\ walk.pc = "done")
    => /\ reached_philosophy(walk.path) <=> walk.reason = "target"
       /\ ReportedOutcome(walk.path, walk.steps, walk.max_steps) = walk.reason

====
